---- MODULE Spec2Model ----
(***************************************************************************)
(* hubot-redis-brain (src/redis-brain.js): the adapter that persists the   *)
(* host's brain in Redis.  The module body runs once at start-up; after    *)
(* that everything is a callback on the event loop: the Redis client's     *)
(* 'connect' and 'error' events, the AUTH and GET reply callbacks, and the *)
(* host brain's 'save' and 'close' events.  The Redis client and server    *)
(* are modelled as a FIFO of commands sent on the single connection and a  *)
(* FIFO of replies waiting for their callback.                             *)
(***************************************************************************)
EXTENDS Integers, Sequences, FiniteSets, TLC

\* ---------------------------------------------------------------- bounds
MaxSaves == 2
MaxConnects == 2

\* ------------------------------------------------------------- JS values
Num(n) == [t |-> "num", n |-> n]
Str(s) == [t |-> "str", s |-> s]
Bool(b) == [t |-> "bool", b |-> b]
Null == [t |-> "null"]
Undefined == [t |-> "undefined"]
Arr(e) == [t |-> "arr", e |-> e]
Obj(kv) == [t |-> "obj", kv |-> kv]

EmptyObj == Obj(<<>>)

\* Numbers and strings that occur in the snapshots the host saves.
Nums == 0..2
Strs == {"a", "b", "c", "1"}

\* Brain snapshots: JSON values (nested objects, arrays, numbers, strings,
\* booleans, null).  Snap1 is what an earlier run has left in Redis, the
\* members of Snapshots are what the host saves in this run.
Snap1 == Obj(<< <<"a", Num(1)>> >>)
Snap2 == Obj(<< <<"a", Str("1")>>, <<"b", Arr(<<Null, Bool(TRUE), Obj(<< <<"c", Num(2)>> >>)>>)>> >>)
Snapshots == {Snap2}

\* What a 'save' event can carry: a snapshot, or nothing.
SaveInputs == Snapshots \cup {Undefined}

\* JS truthiness of the values a handler tests with `!x` / `if (x)`.
Truthy(v) ==
    CASE v.t = "undefined" -> FALSE
      [] v.t = "null" -> FALSE
      [] v.t = "bool" -> v.b
      [] v.t = "num" -> v.n # 0
      [] v.t = "str" -> v.s # ""
      [] OTHER -> TRUE

\* ------------------------------------------------------------------ JSON
\* JSON text is a sequence of lexical tokens.
Quote(s) == "\"" \o s \o "\""

RECURSIVE Stringify(_), StringifyElems(_), StringifyMembers(_)
StringifyElems(e) ==
    IF e = <<>> THEN <<>>
    ELSE Stringify(Head(e))
         \o (IF Tail(e) = <<>> THEN <<>> ELSE <<",">> \o StringifyElems(Tail(e)))

StringifyMembers(kv) ==
    IF kv = <<>> THEN <<>>
    ELSE <<Quote(Head(kv)[1]), ":">> \o Stringify(Head(kv)[2])
         \o (IF Tail(kv) = <<>> THEN <<>> ELSE <<",">> \o StringifyMembers(Tail(kv)))

\* JSON.stringify(v) for a JSON value v.
Stringify(v) ==
    CASE v.t = "num" -> <<ToString(v.n)>>
      [] v.t = "str" -> <<Quote(v.s)>>
      [] v.t = "bool" -> <<IF v.b THEN "true" ELSE "false">>
      [] v.t = "null" -> <<"null">>
      [] v.t = "arr" -> <<"[">> \o StringifyElems(v.e) \o <<"]">>
      [] v.t = "obj" -> <<"{">> \o StringifyMembers(v.kv) \o <<"}">>

SyntaxError == [ok |-> FALSE, v |-> Undefined, next |-> 0]
Parsed(v, next) == [ok |-> TRUE, v |-> v, next |-> next]

IsNumTok(tok) == \E n \in Nums : ToString(n) = tok
IsStrTok(tok) == \E s \in Strs \cup {""} : Quote(s) = tok
NumOf(tok) == CHOOSE n \in Nums : ToString(n) = tok
StrOf(tok) == CHOOSE s \in Strs \cup {""} : Quote(s) = tok

RECURSIVE ParseValue(_, _), ParseElems(_, _, _), ParseMembers(_, _, _)
\* After element r of an array: ']' ends it, ',' continues.
AfterElem(toks, r, acc) ==
    IF ~r.ok \/ r.next > Len(toks) THEN SyntaxError
    ELSE IF toks[r.next] = "]" THEN Parsed(Arr(Append(acc, r.v)), r.next + 1)
    ELSE IF toks[r.next] = "," THEN ParseElems(toks, r.next + 1, Append(acc, r.v))
    ELSE SyntaxError

\* The elements of an array, toks[i] being the first token after '[' or ','.
ParseElems(toks, i, acc) ==
    CHOOSE res \in {AfterElem(toks, r, acc) : r \in {ParseValue(toks, i)}} : TRUE

\* After the value r of member `name` of an object: '}' ends it, ',' continues.
AfterMember(toks, name, r, acc) ==
    IF ~r.ok \/ r.next > Len(toks) THEN SyntaxError
    ELSE IF toks[r.next] = "}" THEN Parsed(Obj(Append(acc, <<name, r.v>>)), r.next + 1)
    ELSE IF toks[r.next] = "," THEN ParseMembers(toks, r.next + 1, Append(acc, <<name, r.v>>))
    ELSE SyntaxError

\* The members of an object, toks[i] being the first token after '{' or ','.
ParseMembers(toks, i, acc) ==
    IF i + 1 > Len(toks) \/ ~IsStrTok(toks[i]) \/ toks[i + 1] # ":" THEN SyntaxError
    ELSE CHOOSE res \in {AfterMember(toks, StrOf(toks[i]), r, acc) :
                            r \in {ParseValue(toks, i + 2)}} : TRUE

\* One JSON value starting at toks[i]; .next is the index after it.
ParseValue(toks, i) ==
    IF i > Len(toks) THEN SyntaxError
    ELSE LET tok == toks[i] IN
         IF tok = "null" THEN Parsed(Null, i + 1)
         ELSE IF tok = "true" THEN Parsed(Bool(TRUE), i + 1)
         ELSE IF tok = "false" THEN Parsed(Bool(FALSE), i + 1)
         ELSE IF IsNumTok(tok) THEN Parsed(Num(NumOf(tok)), i + 1)
         ELSE IF IsStrTok(tok) THEN Parsed(Str(StrOf(tok)), i + 1)
         ELSE IF tok = "[" THEN
              IF i + 1 <= Len(toks) /\ toks[i + 1] = "]" THEN Parsed(Arr(<<>>), i + 2)
              ELSE ParseElems(toks, i + 1, <<>>)
         ELSE IF tok = "{" THEN
              IF i + 1 <= Len(toks) /\ toks[i + 1] = "}" THEN Parsed(Obj(<<>>), i + 2)
              ELSE ParseMembers(toks, i + 1, <<>>)
         ELSE SyntaxError

\* JSON.parse(text): the value, or a SyntaxError (ok = FALSE) that is thrown.
Parse(toks) ==
    CHOOSE res \in {IF r.ok /\ r.next = Len(toks) + 1 THEN r ELSE SyntaxError :
                        r \in {ParseValue(toks, 1)}} : TRUE

\* ------------------------------------------------- connection target
\* Url.parse(redisUrl).  A null component is the empty string / sequence;
\* .path is the path split at its slashes, the slashes kept as tokens.
UrlInfo(auth, hostname, port, pathname, query, path) ==
    [auth |-> auth, hostname |-> hostname, port |-> port,
     pathname |-> pathname, query |-> query, path |-> path]

\* redis://localhost:6379
InfoDefault == UrlInfo("", "localhost", "6379", "", "", <<>>)
\* redis://:secret@h:6379/inst
InfoAuth == UrlInfo(":secret", "h", "6379", "/inst", "", <<"/", "inst">>)
\* redis:///tmp/redis.sock?myprefix
InfoSocket == UrlInfo("", "", "", "/tmp/redis.sock", "myprefix",
                      <<"/", "tmp", "/", "redis.sock", "?", "myprefix">>)

Infos == {InfoDefault, InfoAuth, InfoSocket}

RECURSIVE Join(_)
Join(toks) == IF toks = <<>> THEN "" ELSE Head(toks) \o Join(Tail(toks))

\* String.prototype.replace('/', ''): the first slash only.
RECURSIVE ReplaceFirstSlash(_)
ReplaceFirstSlash(toks) ==
    IF toks = <<>> THEN <<>>
    ELSE IF Head(toks) = "/" THEN Tail(toks)
    ELSE <<Head(toks)>> \o ReplaceFirstSlash(Tail(toks))

\* The prefix without the default.
OrEmpty(s) == s

\* `... || 'hubot'`
OrHubot(s) == IF s = "" THEN "hubot" ELSE s

\* The brain prefix of a parsed URL.
ResolvePrefix(i) ==
    IF i.hostname = "" THEN OrHubot(i.query)
    ELSE OrHubot(Join(ReplaceFirstSlash(i.path)))

Prefixes == {ResolvePrefix(i) : i \in Infos}

\* ------------------------------------------------------- environment
\* process.env: the variables the module reads.  "" stands for a variable
\* that is unset or empty: both are falsy in the tests of the code.
\* VCAP_SERVICES is the descriptor already parsed: service name -> instances.
UrlTogo == "redis://:secret@h:6379/inst"
UrlCloud == "redis://h:6379/myprefix"
UrlBoxen == "redis:///tmp/redis.sock?myprefix"
UrlSlash == "redis://h:6379/"
UrlSock == "redis:///tmp/redis.sock"
UrlLocal == "redis://localhost:6379"

Instance(name, creds) == [name |-> name, credentials |-> creds]

\* The instance's credentials name the host as `hostname`, or as `host` only.
VcapHostname ==
    [s \in {"p-redis"} |->
        <<Instance("other", [host |-> "o", port |-> "1", password |-> "x"]),
          Instance("cfbrain", [hostname |-> "cfhost", host |-> "cfalt",
                               port |-> "6379", password |-> "pw"])>>]
VcapHost ==
    [s \in {"p-redis"} |->
        <<Instance("cfbrain", [host |-> "cfalt", port |-> "6379", password |-> "pw"])>>]
\* The service is bound, the instance named is not among its instances.
VcapOther ==
    [s \in {"p-redis"} |->
        <<Instance("other", [host |-> "o", port |-> "1", password |-> "x"])>>]

Envs ==
    [REDISTOGO_URL : {"", UrlTogo},
     REDISCLOUD_URL : {"", UrlCloud},
     BOXEN_REDIS_URL : {"", UrlBoxen},
     REDIS_URL : {"", UrlSlash, UrlSock},
     CF_REDIS_SERVICE : {"", "p-redis"},
     CF_REDIS_INSTANCE_NAME : {"cfbrain"},
     VCAP_SERVICES : {VcapHostname, VcapHost, VcapOther},
     REDIS_NO_CHECK : {"", "1"}]

EnvUnset ==
    [REDISTOGO_URL |-> "", REDISCLOUD_URL |-> "", BOXEN_REDIS_URL |-> "", REDIS_URL |-> "",
     CF_REDIS_SERVICE |-> "", CF_REDIS_INSTANCE_NAME |-> "cfbrain",
     VCAP_SERVICES |-> VcapHostname, REDIS_NO_CHECK |-> ""]

\* The environments of the runs whose events are explored: no variable set,
\* an authenticated URL, a UNIX-socket URL.
RunEnvs ==
    {EnvUnset,
     [EnvUnset EXCEPT !.REDISTOGO_URL = UrlTogo],
     [EnvUnset EXCEPT !.BOXEN_REDIS_URL = UrlBoxen]}

\* The platform binding tested before the URL variables.
GetRedisEnvCfFirst(e) ==
    IF e.CF_REDIS_SERVICE # "" THEN "CF_REDIS_INSTANCE_NAME"
    ELSE IF e.REDISTOGO_URL # "" THEN "REDISTOGO_URL"
    ELSE IF e.REDISCLOUD_URL # "" THEN "REDISCLOUD_URL"
    ELSE IF e.BOXEN_REDIS_URL # "" THEN "BOXEN_REDIS_URL"
    ELSE IF e.REDIS_URL # "" THEN "REDIS_URL"
    ELSE ""

\* getRedisEnv(): the name of the variable to use, "" for undefined.
GetRedisEnv(e) ==
    IF e.REDISTOGO_URL # "" THEN "REDISTOGO_URL"
    ELSE IF e.REDISCLOUD_URL # "" THEN "REDISCLOUD_URL"
    ELSE IF e.BOXEN_REDIS_URL # "" THEN "BOXEN_REDIS_URL"
    ELSE IF e.REDIS_URL # "" THEN "REDIS_URL"
    ELSE IF e.CF_REDIS_SERVICE # "" THEN "CF_REDIS_INSTANCE_NAME"
    ELSE ""

\* buildCloudFoundryURL(): the URL, or ok = FALSE for the TypeError thrown
\* when the service or the instance is not in the descriptor.
BuildCloudFoundryURL(e) ==
    LET services == e.VCAP_SERVICES
        redisService == IF e.CF_REDIS_SERVICE \in DOMAIN services
                        THEN services[e.CF_REDIS_SERVICE] ELSE <<>>
        found == {i \in DOMAIN redisService : redisService[i].name = e.CF_REDIS_INSTANCE_NAME}
    IN IF e.CF_REDIS_SERVICE \notin DOMAIN services \/ found = {}
       THEN [ok |-> FALSE, url |-> ""]
       ELSE LET hubotInstance == redisService[CHOOSE i \in found : \A j \in found : i <= j]
                redisCreds == hubotInstance.credentials
                host == IF "hostname" \notin DOMAIN redisCreds
                        THEN redisCreds.host ELSE redisCreds.hostname
            IN [ok |-> TRUE,
                url |-> "redis://:" \o redisCreds.password \o "@" \o host \o ":"
                        \o redisCreds.port \o "/" \o e.CF_REDIS_INSTANCE_NAME]

\* Lines 24-37: redisUrl, or ok = FALSE when buildCloudFoundryURL throws.
RedisUrl(e) ==
    IF GetRedisEnv(e) = "" THEN [ok |-> TRUE, url |-> UrlLocal]
    ELSE IF GetRedisEnv(e) = "CF_REDIS_INSTANCE_NAME" THEN BuildCloudFoundryURL(e)
    ELSE [ok |-> TRUE, url |-> e[GetRedisEnv(e)]]

\* Url.parse(redisUrl) on the URLs of the environments.
UrlParse(url) ==
    CASE url = UrlLocal -> InfoDefault
      [] url = UrlTogo -> InfoAuth
      [] url = UrlBoxen -> InfoSocket
      [] url = UrlCloud -> UrlInfo("", "h", "6379", "/myprefix", "", <<"/", "myprefix">>)
      [] url = UrlSlash -> UrlInfo("", "h", "6379", "/", "", <<"/">>)
      [] url = UrlSock -> UrlInfo("", "", "", "/tmp/redis.sock", "",
                                  <<"/", "tmp", "/", "redis.sock">>)
      [] url = "redis://:pw@cfhost:6379/cfbrain" ->
            UrlInfo(":pw", "cfhost", "6379", "/cfbrain", "", <<"/", "cfbrain">>)
      [] url = "redis://:pw@cfalt:6379/cfbrain" ->
            UrlInfo(":pw", "cfalt", "6379", "/cfbrain", "", <<"/", "cfbrain">>)

\* The ready check skipped for the flag only.
SkipReadyCheckFlagOnly(i, e) == e.REDIS_NO_CHECK # ""

\* `info.auth || process.env.REDIS_NO_CHECK`
SkipReadyCheck(i, e) == i.auth # "" \/ e.REDIS_NO_CHECK # ""

\* Redis.createClient(...): its positional arguments and its options.
CreateClient(i, e) ==
    IF i.hostname = ""
    THEN [args |-> <<i.pathname>>, options |-> {}]
    ELSE [args |-> <<i.port, i.hostname>>,
          options |-> IF SkipReadyCheck(i, e) THEN {"no_ready_check"} ELSE {}]

\* --------------------------------------------------------- Redis server
\* A key's value: absent, or a string together with the snapshot whose save
\* wrote it in this run (NoSrc: written before this process started).
NoSrc == [t |-> "none"]
Absent == [exists |-> FALSE, val |-> <<>>, src |-> NoSrc]
Record(val, src) == [exists |-> TRUE, val |-> val, src |-> src]

Keys == {p \o ":storage" : p \in Prefixes} \cup {"hubot"}

\* What the Storage Record can hold when the process starts: nothing, the
\* empty string, or the JSON text an earlier run saved.
InitRecords == {Absent, Record(<<>>, NoSrc), Record(Stringify(Snap1), NoSrc)}

\* ---------------------------------------------------------------- state
VARIABLES
    env,         \* process.env
    pc,          \* how far the module body has run: "env", "url", "client", "done", "failed"
    redisUrl,    \* the URL selected
    client,      \* the arguments of Redis.createClient
    info,        \* the parsed URL
    prefix,      \* the brain prefix
    autoSave,    \* robot.brain's auto-save flag
    conn,        \* the client's connection: "connecting", "connected", "ended"
    closing,     \* client.quit() has been called
    queue,       \* commands sent on the connection, not yet answered
    replies,     \* replies whose callback has not run yet
    store,       \* the Redis server's keys
    issued,      \* every command the adapter has issued, as [op, key]
    hostCalls,   \* the calls made on robot.brain, in order
    logs,        \* the lines written to robot.logger
    thrown,      \* exceptions thrown out of a callback
    alive,       \* the process has not died of an uncaught exception
    authState,   \* "none", "pending", "ok", "failed"
    connects,    \* 'connect' events handled
    loadsStarted,\* calls of getData
    saves,       \* 'save' events handled
    lastSave,    \* the payload of the latest 'save' event
    setsApplied, \* SETs the server has applied
    lastApplied, \* the save number of the latest SET applied
    errorsHandled \* the messages of the 'error' events handled

vars == <<env, pc, redisUrl, client, info, prefix, autoSave, conn, closing, queue, replies, store, issued,
          hostCalls, logs, thrown, alive, authState, connects, loadsStarted,
          saves, lastSave, setsApplied, lastApplied, errorsHandled>>

\* What the module body assigns once and no handler changes.
config == <<env, pc, redisUrl, client, info, prefix>>

\* `info.auth` as a condition.
HasAuth == info.auth # ""

\* The key with the default prefix written out instead of the resolved one.
StorageKeyDefault == "hubot:storage"

\* `${prefix}:storage`
StorageKey == prefix \o ":storage"

Cmd(op, key, val, src, seq) == [op |-> op, key |-> key, val |-> val, src |-> src, seq |-> seq]
AuthCmd == Cmd("auth", "", <<>>, NoSrc, 0)
GetCmd == Cmd("get", StorageKey, <<>>, NoSrc, 0)
SetCmd(key, val, src, seq) == Cmd("set", key, val, src, seq)
QuitCmd == Cmd("quit", "", <<>>, NoSrc, 0)

Reply(op, err, rec) == [op |-> op, err |-> err, rec |-> rec]

Call(name, arg, src) == [call |-> name, arg |-> arg, src |-> src]

\* --------------------------------------------------------------- logger
Log(level, text) == [level |-> level, text |-> text]

\* The line logged when the URL is selected (lines 26-36).
DiscoveryLog(e) ==
    IF GetRedisEnv(e) = ""
    THEN Log("info", "hubot-redis-brain: Using default redis on localhost:6379")
    ELSE IF GetRedisEnv(e) = "CF_REDIS_INSTANCE_NAME"
    THEN Log("info", "hubot-redis-brain: Discovered redis from " \o GetRedisEnv(e)
                        \o " environment variable. Pulling from VCAP")
    ELSE Log("info", "hubot-redis-brain: Discovered redis from " \o GetRedisEnv(e)
                        \o " environment variable")

\* Lines 39-41.
NoCheckLog(e) ==
    IF e.REDIS_NO_CHECK # "" THEN {Log("info", "Turning off redis ready checks")} ELSE {}

\* ------------------------------------------------------ the module body
\* Before module.exports runs: `let client, prefix, redisUrl`, a new host
\* brain with auto-save on, no Redis connection.
StartInit ==
    /\ env \in Envs
    /\ pc = "env"
    /\ redisUrl = Undefined
    /\ client = Undefined
    /\ info = Undefined
    /\ prefix = Undefined
    /\ autoSave = TRUE
    /\ conn = "connecting"
    /\ closing = FALSE
    /\ queue = <<>>
    /\ replies = <<>>
    /\ store = [k \in Keys |-> Absent]
    /\ issued = {}
    /\ hostCalls = <<>>
    /\ logs = {}
    /\ thrown = 0
    /\ alive = TRUE
    /\ authState = "none"
    /\ connects = 0
    /\ loadsStarted = 0
    /\ saves = 0
    /\ lastSave = Undefined
    /\ setsApplied = 0
    /\ lastApplied = 0
    /\ errorsHandled = {}

\* Lines 23-37: the URL is selected; a TypeError of buildCloudFoundryURL
\* leaves the module body.
SelectUrl ==
    /\ pc = "env"
    /\ logs' = logs \cup {DiscoveryLog(env)}
    /\ IF RedisUrl(env).ok
       THEN /\ redisUrl' = RedisUrl(env).url
            /\ pc' = "url"
            /\ UNCHANGED <<thrown, alive>>
       ELSE /\ pc' = "failed"
            /\ thrown' = thrown + 1
            /\ alive' = FALSE
            /\ UNCHANGED redisUrl
    /\ UNCHANGED <<env, client, info, prefix, autoSave, conn, closing, queue, replies, store,
                   issued, hostCalls, authState, connects, loadsStarted, saves, lastSave,
                   setsApplied, lastApplied, errorsHandled>>

\* Lines 39-53: the URL is parsed, the client created, the prefix resolved.
ConnectClient ==
    /\ pc = "url"
    /\ logs' = logs \cup NoCheckLog(env)
    /\ info' = UrlParse(redisUrl)
    /\ client' = CreateClient(UrlParse(redisUrl), env)
    /\ prefix' = ResolvePrefix(UrlParse(redisUrl))
    /\ pc' = "client"
    /\ UNCHANGED <<env, redisUrl, autoSave, conn, closing, queue, replies, store, issued,
                   hostCalls, thrown, alive, authState, connects, loadsStarted, saves,
                   lastSave, setsApplied, lastApplied, errorsHandled>>

\* Lines 55-105: auto-save is switched off, AUTH is sent when the URL has
\* credentials, the handlers are registered.
Register ==
    /\ pc = "client"
    /\ hostCalls' = Append(hostCalls, Call("setAutoSave", Bool(FALSE), NoSrc))
    /\ autoSave' = FALSE
    /\ queue' = IF HasAuth THEN Append(queue, AuthCmd) ELSE queue
    /\ issued' = IF HasAuth THEN issued \cup {[op |-> "auth", key |-> ""]} ELSE issued
    /\ authState' = IF HasAuth THEN "pending" ELSE "none"
    /\ pc' = "done"
    /\ UNCHANGED <<env, redisUrl, client, info, prefix, conn, closing, replies, store, logs,
                   thrown, alive, connects, loadsStarted, saves, lastSave, setsApplied,
                   lastApplied, errorsHandled>>

StartNext == SelectUrl \/ ConnectClient \/ Register

\* The module body alone, for every environment.
StartSpec == StartInit /\ [][StartNext]_vars

\* The state when the module body has returned, for the environments of the
\* runs explored, with what the Storage Record holds at that time.
Init ==
    /\ env \in RunEnvs
    /\ pc = "done"
    /\ redisUrl = RedisUrl(env).url
    /\ client = CreateClient(UrlParse(RedisUrl(env).url), env)
    /\ info = UrlParse(RedisUrl(env).url)
    /\ info \in Infos
    /\ prefix = ResolvePrefix(info)
    /\ autoSave = FALSE
    /\ conn = "connecting"
    /\ closing = FALSE
    /\ queue = IF HasAuth THEN <<AuthCmd>> ELSE <<>>
    /\ replies = <<>>
    /\ \E r \in InitRecords : store = [k \in Keys |-> IF k = ResolvePrefix(info) \o ":storage" THEN r ELSE Absent]
    /\ issued = IF HasAuth THEN {[op |-> "auth", key |-> ""]} ELSE {}
    /\ hostCalls = <<Call("setAutoSave", Bool(FALSE), NoSrc)>>
    /\ logs = {DiscoveryLog(env)} \cup NoCheckLog(env)
    /\ thrown = 0
    /\ alive = TRUE
    /\ authState = IF HasAuth THEN "pending" ELSE "none"
    /\ connects = 0
    /\ loadsStarted = 0
    /\ saves = 0
    /\ lastSave = Undefined
    /\ setsApplied = 0
    /\ lastApplied = 0
    /\ errorsHandled = {}

\* Messages of the client's 'error' events, word by word.
ErrMessages == {<<"connect", "ECONNREFUSED", "127.0.0.1:6379">>,
                <<"read", "ECONNRESET">>}

\* No error recognised as a refused connection.
IsRefusedNever(msg) == FALSE

\* /ECONNREFUSED/.test(err.message)
IsRefused(msg) == \E i \in 1..Len(msg) : msg[i] = "ECONNREFUSED"

\* ------------------------------------------------------------- getData()
\* client.get(`${prefix}:storage`, callback): the command goes on the
\* connection's queue.
GetData ==
    /\ queue' = Append(queue, GetCmd)
    /\ issued' = issued \cup {[op |-> "get", key |-> GetCmd.key]}
    /\ loadsStarted' = loadsStarted + 1

\* `else if (reply)`: a null reply and the empty string are falsy.
ReplyTruthy(rec) == rec.exists /\ rec.val # <<>>

\* Variants of the callback: the reply merged without JSON.parse; no
\* 'connected' on the first run; setAutoSave(true) left out.
GetDataCallsRaw(rec) ==
    (IF ReplyTruthy(rec)
     THEN <<Call("mergeData", Str(Join(rec.val)), rec.src), Call("emit", Str("connected"), NoSrc)>>
     ELSE <<Call("mergeData", EmptyObj, NoSrc), Call("emit", Str("connected"), NoSrc)>>)
    \o <<Call("setAutoSave", Bool(TRUE), NoSrc)>>

GetDataCallsNoSignal(rec) ==
    (IF ReplyTruthy(rec)
     THEN <<Call("mergeData", Parse(rec.val).v, rec.src), Call("emit", Str("connected"), NoSrc)>>
     ELSE <<Call("mergeData", EmptyObj, NoSrc)>>)
    \o <<Call("setAutoSave", Bool(TRUE), NoSrc)>>

GetDataCallsNoAutoSave(rec) ==
    IF ReplyTruthy(rec)
    THEN <<Call("mergeData", Parse(rec.val).v, rec.src), Call("emit", Str("connected"), NoSrc)>>
    ELSE <<Call("mergeData", EmptyObj, NoSrc), Call("emit", Str("connected"), NoSrc)>>

\* The stored data merged by the first load only.
GetDataCallsFirstOnly(rec) ==
    (IF ReplyTruthy(rec) /\ ~autoSave
     THEN <<Call("mergeData", Parse(rec.val).v, rec.src), Call("emit", Str("connected"), NoSrc)>>
     ELSE <<Call("mergeData", EmptyObj, NoSrc), Call("emit", Str("connected"), NoSrc)>>)
    \o <<Call("setAutoSave", Bool(TRUE), NoSrc)>>

\* More variants: 'connected' emitted before the merge; the flag toggled
\* instead of set.
GetDataCallsEmitFirst(rec) ==
    (IF ReplyTruthy(rec)
     THEN <<Call("emit", Str("connected"), NoSrc), Call("mergeData", Parse(rec.val).v, rec.src)>>
     ELSE <<Call("emit", Str("connected"), NoSrc), Call("mergeData", EmptyObj, NoSrc)>>)
    \o <<Call("setAutoSave", Bool(TRUE), NoSrc)>>

GetDataCallsToggle(rec) ==
    (IF ReplyTruthy(rec)
     THEN <<Call("mergeData", Parse(rec.val).v, rec.src), Call("emit", Str("connected"), NoSrc)>>
     ELSE <<Call("mergeData", EmptyObj, NoSrc), Call("emit", Str("connected"), NoSrc)>>)
    \o <<Call("setAutoSave", Bool(~autoSave), NoSrc)>>

\* The calls the GET callback makes on robot.brain for a reply without error.
GetDataCalls(rec) ==
    (IF ReplyTruthy(rec)
     THEN <<Call("mergeData", Parse(rec.val).v, rec.src), Call("emit", Str("connected"), NoSrc)>>
     ELSE <<Call("mergeData", EmptyObj, NoSrc), Call("emit", Str("connected"), NoSrc)>>)
    \o <<Call("setAutoSave", Bool(TRUE), NoSrc)>>

\* The error logged instead of thrown.
GetErrSwallowed == FALSE

\* `if (err) { throw err }`
GetErrThrows == TRUE

\* The `return` missing: the callback goes on to getData().
AuthErrFallsThrough == FALSE

\* The auth callback's `return robot.logger.error(...)` on failure.
AuthErrReturns == TRUE

\* getData() on every 'connect', credentials or not.
ConnectLoadsAlways == TRUE

\* `if (!info.auth) { getData() }` in the 'connect' handler.
ConnectLoads == ~HasAuth

\* `data = {}` without the test.
SaveDataAlwaysEmpty(data) == EmptyObj

\* `data = null` for an absent snapshot.
SaveDataNull(data) == IF ~Truthy(data) THEN Null ELSE data

\* `if (!data) { data = {} }`
SaveData(data) == IF ~Truthy(data) THEN EmptyObj ELSE data

\* The auto-save flag after a sequence of calls on robot.brain.
RECURSIVE AutoSaveAfter(_, _)
AutoSaveAfter(flag, calls) ==
    IF calls = <<>> THEN flag
    ELSE AutoSaveAfter(IF Head(calls).call = "setAutoSave" THEN Head(calls).arg.b ELSE flag,
                       Tail(calls))

\* ------------------------------------------------------- the host brain
\* robot.brain.data of a new brain (hubot's Brain constructor).
BrainInit == << <<"users", EmptyObj>>, <<"_private", EmptyObj>> >>

\* this.data[k] = v
RECURSIVE SetKey(_, _, _)
SetKey(kv, k, v) ==
    IF kv = <<>> THEN << <<k, v>> >>
    ELSE IF Head(kv)[1] = k THEN << <<k, v>> >> \o Tail(kv)
    ELSE <<Head(kv)>> \o SetKey(Tail(kv), k, v)

\* robot.brain.mergeData(data): `for (k in data || {}) this.data[k] = data[k]`
\* (hubot's Brain), on the members of the brain's data and of `data`.
RECURSIVE MergeData(_, _)
MergeData(brain, kv) ==
    IF kv = <<>> THEN brain
    ELSE MergeData(SetKey(brain, Head(kv)[1], Head(kv)[2]), Tail(kv))

\* robot.brain.data after the first n calls on robot.brain.
RECURSIVE BrainAfter(_)
BrainAfter(n) ==
    IF n = 0 THEN BrainInit
    ELSE IF hostCalls[n].call = "mergeData"
         THEN MergeData(BrainAfter(n - 1), hostCalls[n].arg.kv)
         ELSE BrainAfter(n - 1)

\* An exception leaves a callback: the host's uncaughtException handler
\* keeps the process running, or the process dies.
Throw ==
    /\ thrown' = thrown + 1
    /\ alive' \in BOOLEAN

\* ------------------------------------------------------- client events
\* client.on('connect', ...)
ClientConnect ==
    /\ alive /\ conn = "connecting" /\ connects < MaxConnects
    /\ conn' = "connected"
    /\ connects' = connects + 1
    /\ logs' = logs \cup {Log("debug", "hubot-redis-brain: Successfully connected to Redis")}
    /\ IF ConnectLoads THEN GetData ELSE UNCHANGED <<queue, issued, loadsStarted>>
    /\ UNCHANGED <<config, autoSave, closing, replies, store, hostCalls, thrown,
                   alive, authState, saves, lastSave, setsApplied, lastApplied, errorsHandled>>

\* The connection drops; the client reconnects by itself unless quit() was
\* called.
ClientDisconnect ==
    /\ alive /\ conn = "connected"
    /\ conn' = IF closing THEN "ended" ELSE "connecting"
    /\ UNCHANGED <<config, autoSave, closing, queue, replies, store, issued,
                   hostCalls, logs, thrown, alive, authState, connects, loadsStarted,
                   saves, lastSave, setsApplied, lastApplied, errorsHandled>>

\* client.on('error', ...)
ClientError(msg) ==
    /\ alive /\ conn # "ended"
    /\ errorsHandled' = errorsHandled \cup {msg}
    /\ logs' = IF IsRefused(msg) THEN logs ELSE logs \cup {Log("error", Join(msg))}
    /\ UNCHANGED <<config, autoSave, conn, closing, queue, replies, store, issued,
                   hostCalls, thrown, alive, authState, connects, loadsStarted,
                   saves, lastSave, setsApplied, lastApplied>>

\* --------------------------------------------------------- host events
\* A 'save' handler that also switches auto-save on.
HostSaveEnables(data) ==
    /\ alive /\ ~closing /\ saves < MaxSaves
    /\ saves' = saves + 1
    /\ lastSave' = data
    /\ queue' = Append(queue, SetCmd(StorageKey, Stringify(SaveData(data)), data, saves + 1))
    /\ issued' = issued \cup {[op |-> "set", key |-> StorageKey]}
    /\ hostCalls' = Append(hostCalls, Call("setAutoSave", Bool(TRUE), NoSrc))
    /\ autoSave' = TRUE
    /\ UNCHANGED <<config, conn, closing, replies, store, logs,
                   thrown, alive, authState, connects, loadsStarted, setsApplied, lastApplied, errorsHandled>>

\* robot.brain.on('save', ...): the host emits 'save' from its auto-save
\* timer, from robot.brain.save() and from robot.brain.close(), which saves
\* and then emits 'close' as the last event of the brain.
HostSave(data) ==
    /\ alive /\ ~closing /\ saves < MaxSaves
    /\ saves' = saves + 1
    /\ lastSave' = data
    /\ queue' = Append(queue, SetCmd(StorageKey, Stringify(SaveData(data)), data, saves + 1))
    /\ issued' = issued \cup {[op |-> "set", key |-> StorageKey]}
    /\ UNCHANGED <<config, autoSave, conn, closing, replies, store, hostCalls, logs,
                   thrown, alive, authState, connects, loadsStarted, setsApplied, lastApplied, errorsHandled>>

\* client.end() in place of client.quit(): the socket is closed at once.
HostCloseEnd ==
    /\ alive /\ ~closing
    /\ closing' = TRUE
    /\ conn' = "ended"
    /\ UNCHANGED <<config, autoSave, queue, issued, replies, store, hostCalls, logs,
                   thrown, alive, authState, connects, loadsStarted, saves, lastSave,
                   setsApplied, lastApplied, errorsHandled>>

\* robot.brain.on('close', () => client.quit())
HostClose ==
    /\ alive /\ ~closing
    /\ closing' = TRUE
    /\ queue' = Append(queue, QuitCmd)
    /\ issued' = issued \cup {[op |-> "quit", key |-> ""]}
    /\ UNCHANGED <<config, autoSave, conn, replies, store, hostCalls, logs, thrown,
                   alive, authState, connects, loadsStarted, saves, lastSave, setsApplied,
                   lastApplied, errorsHandled>>

\* ------------------------------------------------------- Redis server
\* The server answers the commands of a connection in the order sent.
ServerReady(op) == alive /\ conn = "connected" /\ queue # <<>> /\ Head(queue).op = op

ServerAuth ==
    /\ ServerReady("auth")
    /\ queue' = Tail(queue)
    /\ replies' = Append(replies, Reply("auth", FALSE, Absent))
    /\ UNCHANGED <<config, autoSave, conn, closing, store, issued, hostCalls, logs,
                   thrown, alive, authState, connects, loadsStarted, saves, lastSave,
                   setsApplied, lastApplied, errorsHandled>>

ServerGet ==
    /\ ServerReady("get")
    /\ queue' = Tail(queue)
    /\ replies' = Append(replies, Reply("get", FALSE, store[Head(queue).key]))
    /\ UNCHANGED <<config, autoSave, conn, closing, store, issued, hostCalls, logs,
                   thrown, alive, authState, connects, loadsStarted, saves, lastSave,
                   setsApplied, lastApplied, errorsHandled>>

\* SET has no callback in the adapter.
ServerSet ==
    /\ ServerReady("set")
    /\ queue' = Tail(queue)
    /\ store' = [store EXCEPT ![Head(queue).key] = Record(Head(queue).val, Head(queue).src)]
    /\ setsApplied' = setsApplied + 1
    /\ lastApplied' = Head(queue).seq
    /\ UNCHANGED <<config, autoSave, conn, closing, replies, issued, hostCalls, logs,
                   thrown, alive, authState, connects, loadsStarted, saves, lastSave, errorsHandled>>

\* QUIT: the server answers and closes the connection.
ServerQuit ==
    /\ ServerReady("quit")
    /\ queue' = Tail(queue)
    /\ conn' = "ended"
    /\ UNCHANGED <<config, autoSave, closing, replies, store, issued, hostCalls, logs,
                   thrown, alive, authState, connects, loadsStarted, saves, lastSave,
                   setsApplied, lastApplied, errorsHandled>>

\* The oldest command fails (rejected by the server, or flushed by the client
\* when the connection is lost or closed): its callback gets an error.
CommandFails ==
    /\ alive /\ queue # <<>>
    /\ queue' = Tail(queue)
    /\ replies' = IF Head(queue).op \in {"auth", "get"}
                  THEN Append(replies, Reply(Head(queue).op, TRUE, Absent))
                  ELSE replies
    /\ conn' = IF Head(queue).op = "quit" THEN "ended" ELSE conn
    /\ UNCHANGED <<config, autoSave, closing, store, issued, hostCalls, logs, thrown,
                   alive, authState, connects, loadsStarted, saves, lastSave, setsApplied,
                   lastApplied, errorsHandled>>

\* ---------------------------------------------------------- callbacks
\* The callback of client.auth(...)
AuthCallback ==
    /\ alive /\ replies # <<>> /\ Head(replies).op = "auth"
    /\ replies' = Tail(replies)
    /\ IF Head(replies).err
       THEN /\ logs' = logs \cup {Log("error", "hubot-redis-brain: Failed to authenticate to Redis")}
            /\ authState' = "failed"
            /\ IF AuthErrReturns THEN UNCHANGED <<queue, issued, loadsStarted>> ELSE GetData
       ELSE /\ logs' = logs \cup {Log("info", "hubot-redis-brain: Successfully authenticated to Redis")}
            /\ authState' = "ok"
            /\ GetData
    /\ UNCHANGED <<config, autoSave, conn, closing, store, hostCalls, thrown, alive,
                   connects, saves, lastSave, setsApplied, lastApplied, errorsHandled>>

\* The callback of client.get(...) in getData
GetCallback ==
    /\ alive /\ replies # <<>> /\ Head(replies).op = "get"
    /\ replies' = Tail(replies)
    /\ LET rec == Head(replies).rec
           calls == IF Head(replies).err
                    THEN <<Call("setAutoSave", Bool(TRUE), NoSrc)>>
                    ELSE GetDataCalls(rec)
       IN IF \/ Head(replies).err /\ GetErrThrows
             \/ ~Head(replies).err /\ ReplyTruthy(rec) /\ ~Parse(rec.val).ok
          THEN /\ Throw
               /\ UNCHANGED <<hostCalls, autoSave, logs>>
          ELSE /\ hostCalls' = hostCalls \o calls
               /\ autoSave' = AutoSaveAfter(autoSave, calls)
               /\ logs' = logs \cup
                    {Log("info", IF ReplyTruthy(rec)
                                 THEN "hubot-redis-brain: Data for " \o prefix \o " brain retrieved from Redis"
                                 ELSE "hubot-redis-brain: Initializing new data for " \o prefix \o " brain")}
               /\ UNCHANGED <<thrown, alive>>
    /\ UNCHANGED <<config, conn, closing, queue, store, issued, authState, connects,
                   loadsStarted, saves, lastSave, setsApplied, lastApplied, errorsHandled>>

Next ==
    \/ ClientConnect
    \/ ClientDisconnect
    \/ \E msg \in ErrMessages : ClientError(msg)
    \/ \E data \in SaveInputs : HostSave(data)
    \/ HostClose
    \/ ServerAuth
    \/ ServerGet
    \/ ServerSet
    \/ ServerQuit
    \/ CommandFails
    \/ AuthCallback
    \/ GetCallback

Spec == Init /\ [][Next]_vars

\* Every event but 'save', for liveness.  A 'save' event only puts a SET on
\* the queue behind the commands already sent: it neither reads nor changes
\* the replies, the callbacks or the calls on robot.brain.
LoadNext ==
    \/ ClientConnect
    \/ ClientDisconnect
    \/ \E msg \in ErrMessages : ClientError(msg)
    \/ HostClose
    \/ ServerAuth
    \/ ServerGet
    \/ ServerQuit
    \/ CommandFails
    \/ AuthCallback
    \/ GetCallback

\* The event loop runs every callback whose reply has arrived.
FairSpec == Init /\ [][LoadNext]_vars /\ WF_vars(AuthCallback) /\ WF_vars(GetCallback)

\* ================================================================ claims
ResolvedKey == ResolvePrefix(info) \o ":storage"

\* 'connected' signals so far = loads completed.
LoadsDone == Cardinality({i \in DOMAIN hostCalls : hostCalls[i].call = "emit"})
Merges == Cardinality({i \in DOMAIN hostCalls : hostCalls[i].call = "mergeData"})

\* GETs sent and not yet handled by their callback.
GetsInFlight ==
    Cardinality({i \in DOMAIN queue : queue[i].op = "get"})
    + Cardinality({i \in DOMAIN replies : replies[i].op = "get"})

SetIssued == \E c \in issued : c.op = "set"
GetIssued == \E c \in issued : c.op = "get"

\* This step runs the GET callback / on a reply with an error / without.
GetCallbackStep == replies # <<>> /\ Head(replies).op = "get" /\ replies' = Tail(replies)

\* C1: no SET triggered by a 'save' event is issued before the first load
\* has signalled 'connected', whenever the host emits the event.
C1_NoWriteBeforeConnected == SetIssued => LoadsDone > 0

\* C2 (as stated): the load is triggered once per process lifetime and two
\* GETs are never in flight together, whatever the client's events.
C2_LoadOnce == loadsStarted <= 1 /\ GetsInFlight <= 1

\* C2 (amended): with inline credentials the load is triggered at most once,
\* only by the successful auth callback, and at most one GET is in flight;
\* without credentials every 'connect' event triggers one load.
C2_LoadPerConnect ==
    /\ HasAuth => /\ loadsStarted = (IF authState = "ok" THEN 1 ELSE 0)
                  /\ GetsInFlight <= 1
    /\ ~HasAuth => loadsStarted = connects

C2_Witness == ~HasAuth /\ connects = 2 /\ loadsStarted = 2 /\ GetsInFlight = 2

\* C3: when a load reads the record that a save of snapshot S wrote, the
\* value it merges into the brain equals S.
C3_RoundTrip ==
    \A i \in DOMAIN hostCalls :
        (hostCalls[i].call = "mergeData" /\ hostCalls[i].src \in Snapshots)
            => hostCalls[i].arg = hostCalls[i].src

C3_Witness ==
    \E i \in DOMAIN hostCalls :
        hostCalls[i].call = "mergeData" /\ hostCalls[i].src = Snap2 /\ hostCalls[i].arg = Snap2

\* C4: the SETs of the save events are applied in the order issued, and when
\* all of them have been applied the Storage Record is the JSON text of the
\* last snapshot saved ({} when that save carried none).
C4_SaveOrdering ==
    /\ [](saves > 0 /\ setsApplied = saves
            => /\ store[ResolvedKey].exists
               /\ store[ResolvedKey].val
                    = Stringify(IF lastSave = Undefined THEN EmptyObj ELSE lastSave))
    /\ [][lastApplied' >= lastApplied]_vars

C4_Witness ==
    /\ saves = 2 /\ setsApplied = 2 /\ lastApplied = 2
    /\ lastSave = Snap2 /\ store[ResolvedKey].val = Stringify(Snap2)

\* C5: a GET callback that gets no error and no record merges {} into the
\* brain, signals 'connected' and then enables auto-save.
C5_FirstRun ==
    [][(GetCallbackStep /\ ~Head(replies).err /\ ~Head(replies).rec.exists)
        => /\ hostCalls' = hostCalls \o <<Call("mergeData", EmptyObj, NoSrc),
                                          Call("emit", Str("connected"), NoSrc),
                                          Call("setAutoSave", Bool(TRUE), NoSrc)>>
           /\ autoSave']_vars

C5_Witness ==
    /\ ~store[ResolvedKey].exists
    /\ Len(hostCalls) = 4
    /\ hostCalls[2] = Call("mergeData", EmptyObj, NoSrc)
    /\ hostCalls[3].call = "emit"
    /\ autoSave

\* C6: with inline credentials a GET is issued only once authentication has
\* succeeded, and a 'connect' event starts no load.
C6_AuthBeforeLoad ==
    /\ []((HasAuth /\ GetIssued) => authState = "ok")
    /\ [][(HasAuth /\ connects' # connects)
            => (loadsStarted' = loadsStarted /\ queue' = queue)]_vars

C6_Witness == HasAuth /\ connects >= 1 /\ authState = "ok" /\ GetIssued /\ LoadsDone = 1

\* C7: after an authentication failure the failure is logged, no load is
\* attempted, nothing is merged, 'connected' is not signalled, auto-save
\* stays off and the Storage Record is not written.
C7_AuthFailureInert ==
    /\ [](authState = "failed"
            => /\ Log("error", "hubot-redis-brain: Failed to authenticate to Redis") \in logs
               /\ ~GetIssued
               /\ Merges = 0 /\ LoadsDone = 0
               /\ ~autoSave)
    /\ [][authState = "failed" => store' = store]_vars

\* C8: a GET callback that gets an error throws it, merges nothing, signals
\* nothing and leaves auto-save alone; auto-save is on only after a load
\* that succeeded.
C8_LoadErrorPropagates ==
    /\ [][(GetCallbackStep /\ Head(replies).err)
            => /\ thrown' = thrown + 1
               /\ hostCalls' = hostCalls
               /\ autoSave' = autoSave]_vars
    /\ [](autoSave => (Merges > 0 /\ LoadsDone > 0))

C8_Witness == thrown = 1 /\ alive /\ loadsStarted = 1 /\ ~autoSave /\ Len(hostCalls) = 1

\* C9: without credentials, once a GET has been answered without error its
\* callback eventually runs: every load started has then failed, is still in
\* flight, or has merged the data (or {}) and signalled 'connected', and
\* auto-save is on -- unless an earlier load's error has killed the process.
OkReplyPending == \E i \in DOMAIN replies : replies[i].op = "get" /\ ~replies[i].err

C9_LoadCompletes ==
    (~HasAuth /\ connects > 0 /\ OkReplyPending)
    ~> \/ /\ ~OkReplyPending
          /\ LoadsDone > 0 /\ Merges = LoadsDone
          /\ LoadsDone + thrown + GetsInFlight = loadsStarted
          /\ autoSave
       \/ ~alive

C9_Witness ==
    /\ ~HasAuth /\ connects = 1 /\ LoadsDone = 1 /\ autoSave
    /\ hostCalls[2] = Call("mergeData", Snap1, NoSrc)

\* C10: every GET and SET issued targets `{prefix}:storage` for the prefix
\* resolved at start-up, no other command with a key (no delete) is issued,
\* no other key of the server changes, and the prefix never changes.
C10_SingleKey ==
    /\ [](/\ prefix = ResolvePrefix(info)
          /\ \A c \in issued : /\ c.op \in {"auth", "get", "set", "quit"}
                               /\ c.op \in {"get", "set"} => c.key = ResolvedKey
                               /\ c.op \in {"auth", "quit"} => c.key = ""
          /\ \A i \in DOMAIN queue : queue[i].op \in {"get", "set"} => queue[i].key = ResolvedKey
          /\ \A k \in Keys \ {ResolvedKey} : ~store[k].exists)
    /\ [][prefix' = prefix /\ info' = info]_vars

C10_Witness ==
    /\ info = InfoSocket
    /\ [op |-> "get", key |-> "myprefix:storage"] \in issued
    /\ [op |-> "set", key |-> "myprefix:storage"] \in issued
    /\ store["myprefix:storage"].src = Snap2

\* This step handles a 'save' event.
SaveStep == saves' = saves + 1

\* C14: every 'save' event puts exactly one SET of the Storage Record behind
\* the commands already sent, and a 'save' event without a snapshot writes
\* the JSON text of the empty object.
C14_AbsentSavedAsEmpty ==
    /\ [][SaveStep
            => /\ Len(queue') = Len(queue) + 1
               /\ SubSeq(queue', 1, Len(queue)) = queue
               /\ queue'[Len(queue')].op = "set"
               /\ queue'[Len(queue')].key = ResolvedKey
               /\ (lastSave' = Undefined => queue'[Len(queue')].val = <<"{", "}">>)]_vars
    /\ [](\A k \in Keys :
            (store[k].exists /\ store[k].src = Undefined) => store[k].val = <<"{", "}">>)

C14_Witness ==
    /\ saves = 1 /\ lastSave = Undefined /\ setsApplied = 1
    /\ store[ResolvedKey] = Record(<<"{", "}">>, Undefined)

\* C18: the calls on robot.brain after the initial setAutoSave(false) come in
\* triples made by one GET callback: mergeData, then emit('connected'), then
\* setAutoSave(true); the flag is on only once that third call has been made.
C18_LoadOrder ==
    /\ [](\A i \in DOMAIN hostCalls :
            /\ hostCalls[i].call = "emit"
                  => (i > 1 /\ hostCalls[i - 1].call = "mergeData")
            /\ hostCalls[i] = Call("setAutoSave", Bool(TRUE), NoSrc)
                  => (i > 2 /\ hostCalls[i - 1].call = "emit" /\ hostCalls[i - 2].call = "mergeData")
            /\ hostCalls[i].call = "mergeData"
                  => (i + 2 <= Len(hostCalls) /\ hostCalls[i + 1].call = "emit"))
    /\ [](autoSave <=> \E i \in DOMAIN hostCalls : hostCalls[i] = Call("setAutoSave", Bool(TRUE), NoSrc))
    /\ [][hostCalls' # hostCalls
            => /\ GetCallbackStep
               /\ Len(hostCalls') = Len(hostCalls) + 3
               /\ SubSeq(hostCalls', 1, Len(hostCalls)) = hostCalls]_vars

C18_Witness ==
    /\ Len(hostCalls) = 7
    /\ hostCalls[2] = Call("mergeData", Snap1, NoSrc)
    /\ hostCalls[3] = Call("emit", Str("connected"), NoSrc)
    /\ hostCalls[4] = Call("setAutoSave", Bool(TRUE), NoSrc)
    /\ hostCalls[5] = Call("mergeData", Snap2, Snap2)
    /\ hostCalls[6] = Call("emit", Str("connected"), NoSrc)
    /\ hostCalls[7] = Call("setAutoSave", Bool(TRUE), NoSrc)

\* C19: the first call on robot.brain is setAutoSave(false), made before any
\* event is handled; every later setAutoSave call has the argument true, and
\* no step of any handler takes the flag from on to off.
C19_AutoSaveOffOnce ==
    /\ [](/\ hostCalls # <<>>
          /\ hostCalls[1] = Call("setAutoSave", Bool(FALSE), NoSrc)
          /\ \A i \in 2..Len(hostCalls) :
                hostCalls[i].call = "setAutoSave" => hostCalls[i].arg = Bool(TRUE))
    /\ [][autoSave => autoSave']_vars

C19_Witness ==
    /\ autoSave /\ LoadsDone = 2 /\ saves = 1 /\ closing /\ conn = "ended"
    /\ Log("error", "readECONNRESET") \in logs

\* C20: a step that handles a 'save' event adds one SET to the queue and
\* leaves the calls on robot.brain, the auto-save flag, the loads started,
\* the replies and the server untouched; a call on robot.brain is only ever
\* made by the GET callback of a reply without error.
SetsQueued(q) == Cardinality({i \in DOMAIN q : q[i].op = "set"})
OthersQueued(q) == Cardinality({i \in DOMAIN q : q[i].op # "set"})

C20_SaveFrame ==
    /\ [][SaveStep
            => /\ hostCalls' = hostCalls
               /\ autoSave' = autoSave
               /\ loadsStarted' = loadsStarted
               /\ replies' = replies
               /\ store' = store
               /\ SetsQueued(queue') = SetsQueued(queue) + 1
               /\ OthersQueued(queue') = OthersQueued(queue)
               /\ issued' \ issued \subseteq {[op |-> "set", key |-> ResolvedKey]}]_vars
    /\ [][hostCalls' # hostCalls => (GetCallbackStep /\ ~Head(replies).err)]_vars

C20_Witness ==
    /\ saves = 2 /\ SetsQueued(queue) = 2
    /\ Len(hostCalls) = 4 /\ LoadsDone = 1 /\ loadsStarted = 1

MergeCalls == {i \in DOMAIN hostCalls : hostCalls[i].call = "mergeData"}

C16_LoadIdempotent ==
    \A i, j \in MergeCalls :
        (i < j /\ hostCalls[i].src = hostCalls[j].src)
            => /\ hostCalls[j].arg = hostCalls[i].arg
               /\ (\A k \in MergeCalls : ~(i < k /\ k < j))
                    => BrainAfter(j) = BrainAfter(i)

C16_Witness ==
    /\ Len(hostCalls) = 7
    /\ hostCalls[2] = Call("mergeData", Snap2, Snap2)
    /\ hostCalls[5] = Call("mergeData", Snap2, Snap2)
    /\ BrainAfter(7) = BrainInit \o Snap2.kv
    /\ BrainAfter(4) = BrainAfter(7)

\* The URL variables in the order of their priority.
UrlVars == <<"REDISTOGO_URL", "REDISCLOUD_URL", "BOXEN_REDIS_URL", "REDIS_URL">>
NoneBefore(i) == \A j \in 1..(i - 1) : env[UrlVars[j]] = ""
NoUrlVar == \A i \in DOMAIN UrlVars : env[UrlVars[i]] = ""
DiscoveredFrom(name) ==
    Log("info", "hubot-redis-brain: Discovered redis from " \o name \o " environment variable")

\* C12: once the URL has been selected it is the value of the first URL
\* variable set, in the order REDISTOGO_URL, REDISCLOUD_URL, BOXEN_REDIS_URL,
\* REDIS_URL; the Cloud Foundry binding is consulted exactly when none of the
\* four is set and CF_REDIS_SERVICE is; redis://localhost:6379 is used
\* exactly when none of the five is set.
C12_EnvPriority ==
    pc # "env" =>
        /\ \A i \in DOMAIN UrlVars :
              (env[UrlVars[i]] # "" /\ NoneBefore(i))
                  => /\ pc # "failed"
                     /\ redisUrl = env[UrlVars[i]]
                     /\ DiscoveredFrom(UrlVars[i]) \in logs
        /\ (\E l \in logs : l.text = "hubot-redis-brain: Discovered redis from "
                                \o "CF_REDIS_INSTANCE_NAME environment variable. Pulling from VCAP")
              <=> (NoUrlVar /\ env.CF_REDIS_SERVICE # "")
        /\ (NoUrlVar /\ env.CF_REDIS_SERVICE # "" /\ pc # "failed")
              => redisUrl \in {"redis://:pw@cfhost:6379/cfbrain", "redis://:pw@cfalt:6379/cfbrain"}
        /\ (pc # "failed" /\ redisUrl = UrlLocal) <=> (NoUrlVar /\ env.CF_REDIS_SERVICE = "")
        /\ pc = "failed" => (NoUrlVar /\ env.CF_REDIS_SERVICE # "")

C12_Witness ==
    /\ pc = "done"
    /\ env.REDISTOGO_URL = "" /\ env.REDISCLOUD_URL = UrlCloud /\ env.BOXEN_REDIS_URL = ""
    /\ env.REDIS_URL = UrlSock /\ env.CF_REDIS_SERVICE = "p-redis"
    /\ redisUrl = UrlCloud

\* C13: once the client has been created: with an empty hostname it was
\* created from the URL's path as socket and the prefix is the query string;
\* otherwise it was created from port and hostname and the prefix is the
\* path after its leading slash; the prefix is 'hubot' when that part of the
\* URL is missing or empty, and is never the empty string.
C13_TargetResolution ==
    pc \in {"client", "done"} =>
        /\ info.hostname = ""
              => /\ client.args = <<info.pathname>>
                 /\ prefix = (IF info.query = "" THEN "hubot" ELSE info.query)
        /\ info.hostname # ""
              => /\ client.args = <<info.port, info.hostname>>
                 /\ prefix = (IF Len(info.path) <= 1 THEN "hubot" ELSE Join(Tail(info.path)))
        /\ prefix # ""
        /\ redisUrl = UrlLocal => (prefix = "hubot" /\ client.args = <<"6379", "localhost">>)
        /\ redisUrl = UrlCloud => (prefix = "myprefix" /\ client.args = <<"6379", "h">>)
        /\ redisUrl = UrlBoxen => (prefix = "myprefix" /\ client.args = <<"/tmp/redis.sock">>)

C13_Witness ==
    /\ pc = "done" /\ redisUrl = UrlSock
    /\ client.args = <<"/tmp/redis.sock">> /\ prefix = "hubot"

\* C17: once the client has been created: in host/port form it has the
\* option no_ready_check exactly when the URL has credentials or
\* REDIS_NO_CHECK is set; in UNIX-socket form it was created from the socket
\* path with no option at all.
C17_ReadyCheckOption ==
    pc \in {"client", "done"} =>
        /\ info.hostname # ""
              => (("no_ready_check" \in client.options)
                    <=> (info.auth # "" \/ env.REDIS_NO_CHECK # ""))
        /\ info.hostname = ""
              => client = [args |-> <<info.pathname>>, options |-> {}]

C17_Witness ==
    /\ pc = "done" /\ redisUrl = UrlTogo /\ env.REDIS_NO_CHECK = ""
    /\ client = [args |-> <<"6379", "h">>, options |-> {"no_ready_check"}]

\* C11: an error-level line with the message of an 'error' event is in the
\* log exactly when such an event has been handled and its message is not
\* the ECONNREFUSED one; a step that handles an 'error' event sends no
\* command, starts no load, and leaves the auto-save flag, the calls on
\* robot.brain, the replies, the server and the connection as they are.
RefusedMsg == <<"connect", "ECONNREFUSED", "127.0.0.1:6379">>

C11_SuppressedError ==
    /\ [](\A m \in ErrMessages :
            (Log("error", Join(m)) \in logs) <=> (m \in errorsHandled /\ m # RefusedMsg))
    /\ [][errorsHandled' # errorsHandled
            => UNCHANGED <<queue, issued, loadsStarted, saves, autoSave, hostCalls,
                           replies, store, conn, closing, authState>>]_vars

C11_Witness ==
    /\ errorsHandled = ErrMessages
    /\ Log("error", "readECONNRESET") \in logs
    /\ \A l \in logs : l.level = "error" => l.text = "readECONNRESET"
    /\ connects = 1 /\ LoadsDone = 1 /\ saves = 1

====
